---------------------------- MODULE Spec2Model ----------------------------
(***************************************************************************)
(* Model of the GnssLogger-to-RINEX converters android_to_rinex_2.11.py    *)
(* and android_to_rinex_3.03.py: the record loop of __main__, the          *)
(* RinexBatch class and the helpers the loop calls.                        *)
(*                                                                         *)
(* Numbers.  The programs compute in floating point; the model computes in *)
(* integers.  Every "...Nanos" field is held in ticks of one millisecond   *)
(* (TICKS_PER_S ticks per second), ranges in metres, wavelengths in        *)
(* micrometres, carrier frequencies in units of 500 Hz, cycles and hertz   *)
(* as whole numbers (floor of the exact quotient).  An optional value is   *)
(* None (the empty sequence) or Some(v).                                   *)
(***************************************************************************)
EXTENDS Integers, Sequences, FiniteSets, TLC

VARIABLES
    variant,        \* which program runs: "2.11" or "3.03"
    args,           \* command line flags: fix_bias, integerize, skip_edit
    profile,        \* which family of input lines the log file is made of
    pc,             \* "loop" (reading the log), "done", "abort" (uncaught exception)
    fault,          \* history: None, or Some(the exception that ended the run)
    nread,          \* number of lines read from the log so far
    fullbiasnanos,  \* __main__ fullbiasnanos: None or Some(ticks)
    first_epoch,    \* __main__ first_epoch: None or Some(FALSE)
    rinex_batch,    \* __main__ rinex_batch: None or Some(batch)
    out,            \* what has been written to the output after rinex_header
    log,            \* history: one entry per line read
    added,          \* history: the add calls made on the live batch
    flushes,        \* history: one entry per call of RinexBatch.print
    ncreated,       \* history: number of RinexBatch objects constructed
    adr             \* get_correction_adr called on its own: None, or the call's
                    \* arguments and the values it returned

vars == <<variant, args, profile, pc, fault, nread, fullbiasnanos, first_epoch,
          rinex_batch, out, log, added, flushes, ncreated, adr>>

None == <<>>
Some(v) == <<v>>
Val(o) == o[1]

-----------------------------------------------------------------------------
(* Bounds of the model *)

MaxLines == 3

\* get_correction_adr on its own: how often it is applied to its own result
MaxCalls == 2

-----------------------------------------------------------------------------
(* Program constants *)

TICKS_PER_S == 1000
GPS_WEEKSECS == 604800
SPEED_OF_LIGHT == 299792458
MAX_VALUE == 8388608

CONSTELLATION_GPS == 1
CONSTELLATION_SBAS == 2
CONSTELLATION_GLONASS == 3
CONSTELLATION_QZSS == 4
CONSTELLATION_BEIDOU == 5
CONSTELLATION_GALILEO == 6
CONSTELLATION_UNKNOWN == 0

ADR_STATE_VALID == 1

\* carrier frequencies in units of 500 Hz
GPS_L1_FREQ == 3150840
GPS_L2_FREQ == 2455200
GPS_L5_FREQ == 2352900
BDS_L1_FREQ == 3122196
BDS_L2_FREQ == 2414280
BDS_L3_FREQ == 2537040
GAL_E1_FREQ == 3150840
GAL_E5A_FREQ == 2352900
GAL_E5B_FREQ == 2414280
GAL_E6_FREQ == 2557500
GLO_L1_FREQ_BASE == 3204000
GLO_L2_FREQ_BASE == 2492000
GLO_L1_FREQ_STEP == 1125
GLO_L2_FREQ_STEP == 875

GLN_LIST == <<1, -4, 5, 6, 1, -4, 5, 6, -2, -7, 0, -1,
              -2, -7, 0, -1, -6, -3, 3, 2, 4, -3, 3, 2>>

-----------------------------------------------------------------------------
(* Integer arithmetic standing for the programs' floating point *)

\* floor(a * 10^n / b) for a >= 0, b > 0, by long division (no overflow)
RECURSIVE LongDiv(_, _, _, _)
LongDiv(q, r, b, n) ==
    IF n = 0 THEN q
    ELSE LongDiv(q * 10 + (r * 10) \div b, (r * 10) % b, b, n - 1)

\* a * 10^n / b, rounded towards zero
ScaledDiv(a, n, b) ==
    IF a >= 0 THEN LongDiv(a \div b, a % b, b, n)
    ELSE -LongDiv((-a) \div b, (-a) % b, b, n)

\* Python's int(x) of a number of ticks: the whole seconds, rounded towards zero
IntSeconds(t) == IF t >= 0 THEN t \div TICKS_PER_S ELSE -((-t) \div TICKS_PER_S)

\* SPEED_OF_LIGHT / freq in micrometres, freq in units of 500 Hz
Wavelength(freq) == ScaledDiv(2 * SPEED_OF_LIGHT, 3, freq)

GPS_L1_WAVELENGTH == Wavelength(GPS_L1_FREQ)
GPS_L2_WAVELENGTH == Wavelength(GPS_L2_FREQ)
GPS_L5_WAVELENGTH == Wavelength(GPS_L5_FREQ)
BDS_L1_WAVELENGTH == Wavelength(BDS_L1_FREQ)
BDS_L2_WAVELENGTH == Wavelength(BDS_L2_FREQ)
BDS_L3_WAVELENGTH == Wavelength(BDS_L3_FREQ)
GAL_E1_WAVELENGTH == Wavelength(GAL_E1_FREQ)
GAL_E5A_WAVELENGTH == Wavelength(GAL_E5A_FREQ)
GAL_E5B_WAVELENGTH == Wavelength(GAL_E5B_FREQ)
GAL_E6_WAVELENGTH == Wavelength(GAL_E6_FREQ)

get_glo_L1(chel) == Wavelength(GLO_L1_FREQ_BASE + chel * GLO_L1_FREQ_STEP)
get_glo_L2(chel) == Wavelength(GLO_L2_FREQ_BASE + chel * GLO_L2_FREQ_STEP)

\* metres / wavelength: whole cycles (or hertz, for metres per second)
Cycles(metres, wave_length) == ScaledDiv(metres, 6, wave_length)

\* adr_rolls is held multiplied by MAX_VALUE, so that the half is exact
get_correction_adr(psr, adr_cycles, wave_length) ==
    LET ratio == Cycles(psr, wave_length) + adr_cycles   \* adr_rolls * MAX_VALUE
        adr_rolls == IF ratio <= 0 THEN ratio - MAX_VALUE \div 2
                                   ELSE ratio + MAX_VALUE \div 2
    IN  -(adr_cycles - adr_rolls)

check_adr_state(state) == (state % 2) = ADR_STATE_VALID


-----------------------------------------------------------------------------
(* class RinexBatch *)

Count(s, x) == Cardinality({i \in 1..Len(s) : s[i] = x})

\* the formatted value '{:.3f}'.format(v) and the placeholder ""
Fmt(v) == <<v>>
EMPTY == <<>>

\* android_to_rinex_2.11.py: RinexBatch.__init__ / __clear
RinexBatch211(epoch) ==
    [epoch |-> epoch, svids |-> <<>>,
     c1 |-> <<>>, s1 |-> <<>>, l1 |-> <<>>, d1 |-> <<>>]

\* android_to_rinex_3.03.py: RinexBatch.__init__ / __clear
RinexBatch303(epoch) ==
    [epoch |-> epoch, svids |-> <<>>,
     c1 |-> <<>>, s1 |-> <<>>, l1 |-> <<>>, d1 |-> <<>>,
     c2 |-> <<>>, s2 |-> <<>>, l2 |-> <<>>, d2 |-> <<>>]

\* android_to_rinex_2.11.py: RinexBatch.add
add211(self, svid, c1, s1, l1, d1) ==
    [self EXCEPT !.svids = Append(@, svid),
                 !.c1 = Append(@, c1), !.s1 = Append(@, s1),
                 !.l1 = Append(@, l1), !.d1 = Append(@, d1)]

IsPrimary(codeType) == codeType = "L1" \/ codeType = "E1" \/ codeType = "B1"

\* mutant of add303: another band of a satellite already listed gets an
\* entry of its own
add303_SecondEntry(self, codeType, svid, c1, s1, l1, d1) ==
    IF IsPrimary(codeType)
    THEN IF \E i \in 1..Len(self.svids) : self.svids[i] = svid
         THEN LET i == CHOOSE k \in 1..Len(self.svids) : self.svids[k] = svid
              IN  [self EXCEPT !.c1[i] = c1, !.s1[i] = s1,
                               !.l1[i] = l1, !.d1[i] = d1]
         ELSE [self EXCEPT !.svids = Append(@, svid),
                           !.c1 = Append(@, c1), !.s1 = Append(@, s1),
                           !.l1 = Append(@, l1), !.d1 = Append(@, d1),
                           !.c2 = Append(@, EMPTY), !.s2 = Append(@, EMPTY),
                           !.l2 = Append(@, EMPTY), !.d2 = Append(@, EMPTY)]
    ELSE [self EXCEPT !.svids = Append(@, svid),
                      !.c1 = Append(@, EMPTY), !.s1 = Append(@, EMPTY),
                      !.l1 = Append(@, EMPTY), !.d1 = Append(@, EMPTY),
                      !.c2 = Append(@, c1), !.s2 = Append(@, s1),
                      !.l2 = Append(@, l1), !.d2 = Append(@, d1)]

\* mutant of add303: a band already filled keeps its first values
add303_FirstWins(self, codeType, svid, c1, s1, l1, d1) ==
    IF \E i \in 1..Len(self.svids) : self.svids[i] = svid
    THEN LET i == CHOOSE k \in 1..Len(self.svids) : self.svids[k] = svid
         IN  IF IsPrimary(codeType)
             THEN IF self.c1[i] # EMPTY THEN self
                  ELSE [self EXCEPT !.c1[i] = c1, !.s1[i] = s1,
                                    !.l1[i] = l1, !.d1[i] = d1]
             ELSE IF self.c2[i] # EMPTY THEN self
                  ELSE [self EXCEPT !.c2[i] = c1, !.s2[i] = s1,
                                    !.l2[i] = l1, !.d2[i] = d1]
    ELSE IF IsPrimary(codeType)
         THEN [self EXCEPT !.svids = Append(@, svid),
                           !.c1 = Append(@, c1), !.s1 = Append(@, s1),
                           !.l1 = Append(@, l1), !.d1 = Append(@, d1),
                           !.c2 = Append(@, EMPTY), !.s2 = Append(@, EMPTY),
                           !.l2 = Append(@, EMPTY), !.d2 = Append(@, EMPTY)]
         ELSE [self EXCEPT !.svids = Append(@, svid),
                           !.c1 = Append(@, EMPTY), !.s1 = Append(@, EMPTY),
                           !.l1 = Append(@, EMPTY), !.d1 = Append(@, EMPTY),
                           !.c2 = Append(@, c1), !.s2 = Append(@, s1),
                           !.l2 = Append(@, l1), !.d2 = Append(@, d1)]

\* mutant of add303: a satellite already listed gets a second entry
add303_NoMerge(self, codeType, svid, c1, s1, l1, d1) ==
    IF IsPrimary(codeType)
    THEN [self EXCEPT !.svids = Append(@, svid),
                      !.c1 = Append(@, c1), !.s1 = Append(@, s1),
                      !.l1 = Append(@, l1), !.d1 = Append(@, d1),
                      !.c2 = Append(@, EMPTY), !.s2 = Append(@, EMPTY),
                      !.l2 = Append(@, EMPTY), !.d2 = Append(@, EMPTY)]
    ELSE [self EXCEPT !.svids = Append(@, svid),
                      !.c1 = Append(@, EMPTY), !.s1 = Append(@, EMPTY),
                      !.l1 = Append(@, EMPTY), !.d1 = Append(@, EMPTY),
                      !.c2 = Append(@, c1), !.s2 = Append(@, s1),
                      !.l2 = Append(@, l1), !.d2 = Append(@, d1)]

\* android_to_rinex_3.03.py: RinexBatch.add
add303(self, codeType, svid, c1, s1, l1, d1) ==
    IF \E i \in 1..Len(self.svids) : self.svids[i] = svid
    THEN LET i == CHOOSE k \in 1..Len(self.svids) :
                      /\ self.svids[k] = svid
                      /\ \A j \in 1..(k - 1) : self.svids[j] # svid
         IN  IF IsPrimary(codeType)
             THEN [self EXCEPT !.c1[i] = c1, !.s1[i] = s1, !.l1[i] = l1, !.d1[i] = d1]
             ELSE [self EXCEPT !.c2[i] = c1, !.s2[i] = s1, !.l2[i] = l1, !.d2[i] = d1]
    ELSE IF IsPrimary(codeType)
         THEN [self EXCEPT !.svids = Append(@, svid),
                           !.c1 = Append(@, c1), !.s1 = Append(@, s1),
                           !.l1 = Append(@, l1), !.d1 = Append(@, d1),
                           !.c2 = Append(@, EMPTY), !.s2 = Append(@, EMPTY),
                           !.l2 = Append(@, EMPTY), !.d2 = Append(@, EMPTY)]
         ELSE [self EXCEPT !.svids = Append(@, svid),
                           !.c1 = Append(@, EMPTY), !.s1 = Append(@, EMPTY),
                           !.l1 = Append(@, EMPTY), !.d1 = Append(@, EMPTY),
                           !.c2 = Append(@, c1), !.s2 = Append(@, s1),
                           !.l2 = Append(@, l1), !.d2 = Append(@, d1)]

\* mutant of HasRepeated: only the first satellite is counted
HasRepeated_FirstOnly(svids) == Len(svids) > 0 /\ Count(svids, svids[1]) > 1

\* the check for repeated entries that opens RinexBatch.print
HasRepeated(svids) == \E i \in 1..Len(svids) : Count(svids, svids[i]) > 1

\* android_to_rinex_2.11.py: RinexBatch.print; the text returned, as the
\* sequence of blocks it holds (<<>> is the empty string)
print211(self) ==
    IF HasRepeated(self.svids) THEN <<>>
    ELSE << [type |-> "epoch", epoch |-> self.epoch,
             nsat |-> Len(self.svids), ids |-> self.svids,
             data |-> [i \in 1..Len(self.svids) |->
                          [c1 |-> self.c1[i], s1 |-> self.s1[i],
                           l1 |-> self.l1[i], d1 |-> self.d1[i]]]] >>

Row303(self, i) ==
    [svid |-> self.svids[i],
     c1 |-> self.c1[i], l1 |-> self.l1[i], d1 |-> self.d1[i], s1 |-> self.s1[i],
     c2 |-> self.c2[i], l2 |-> self.l2[i], d2 |-> self.d2[i], s2 |-> self.s2[i]]

\* mutant of Rows303: the lines of a constellation come last added first
Rows303_Reversed(self, letter) ==
    SelectSeq([i \in 1..Len(self.svids) |->
                  Row303(self, Len(self.svids) + 1 - i)],
              LAMBDA r : r.svid.sys = letter)

\* the data lines of one constellation letter, in list order
Rows303(self, letter) ==
    SelectSeq([i \in 1..Len(self.svids) |-> Row303(self, i)],
              LAMBDA r : r.svid.sys = letter)

\* mutant of print303: the loop over the GLONASS lines is missing
print303_NoGlonass(self) ==
    IF HasRepeated(self.svids) THEN <<>>
    ELSE << [type |-> "epoch", epoch |-> self.epoch,
             nsat |-> Len(self.svids), ids |-> <<>>,
             data |-> Rows303(self, "G") \o Rows303(self, "C") \o
                      Rows303(self, "E") \o Rows303(self, "J")] >>

\* android_to_rinex_3.03.py: RinexBatch.print
print303(self) ==
    IF HasRepeated(self.svids) THEN <<>>
    ELSE << [type |-> "epoch", epoch |-> self.epoch,
             nsat |-> Len(self.svids), ids |-> <<>>,
             data |-> Rows303(self, "G") \o Rows303(self, "C") \o
                      Rows303(self, "E") \o Rows303(self, "R") \o
                      Rows303(self, "J")] >>

\* def end_header(first_epoch)
end_header(epoch) == << [type |-> "end_header", epoch |-> epoch] >>

\* 'G{0:02d}'.format(prn)
SvidStr(letter, prn) == [sys |-> letter, prn |-> prn]

-----------------------------------------------------------------------------
(* __main__: the clock and the epoch of a record *)

\* mutant of UpdateFullBias: --fix-bias is ignored
UpdateFullBias_Refresh(held, values, fix_bias) == Some(values.FullBiasNanos)

\* "if fullbiasnanos is None or not args.fix_bias: fullbiasnanos = ..."
UpdateFullBias(held, values, fix_bias) ==
    IF held = None \/ ~fix_bias THEN Some(values.FullBiasNanos) ELSE held

\* the BiasNanos that enters local_est_GPS_time
UsedBiasNanos(values) == values.BiasNanos

WEEK == GPS_WEEKSECS * TICKS_PER_S

gpsweek_of(fb) == (-fb) \div WEEK

gpssow_of(fb, values) ==
    LET local_est_GPS_time == values.TimeNanos - (fb + UsedBiasNanos(values))
    IN  local_est_GPS_time - gpsweek_of(fb) * WEEK

\* mutant of frac_of: the second is cut, not rounded
frac_of_Floor(gpssow, integerize) ==
    IF integerize THEN gpssow - IntSeconds(gpssow) * TICKS_PER_S ELSE 0

\* "frac = gpssow - int(gpssow+0.5)" under --integerize, else 0.0
frac_of(gpssow, integerize) ==
    IF integerize
    THEN gpssow - IntSeconds(gpssow + TICKS_PER_S \div 2) * TICKS_PER_S
    ELSE 0

\* def gpstime_to_epoch(week, sow): ticks since GPSTIME
gpstime_to_epoch(week, sow) == week * WEEK + sow

\* the epoch a record resolves to, with fb the full bias in use
ResolveEpoch(fb, values, integerize) ==
    LET gpssow == gpssow_of(fb, values)
    IN  gpstime_to_epoch(gpsweek_of(fb), gpssow - frac_of(gpssow, integerize))

-----------------------------------------------------------------------------
(* __main__: from a record to its observable *)

\* tau * SPEED_OF_LIGHT in metres, tau in ticks.  A travel time of more than
\* one second is held as one second: the model's integers end at 2^31, and
\* every range the programs compare against lies far below one light-second.
Range(tau) ==
    LET a == IF tau >= 0 THEN tau ELSE -tau
        m == IF a > TICKS_PER_S THEN TICKS_PER_S ELSE a
        r == (SPEED_OF_LIGHT \div TICKS_PER_S) * m
             + ((SPEED_OF_LIGHT % TICKS_PER_S) * m) \div TICKS_PER_S
    IN  IF tau >= 0 THEN r ELSE -r

\* frac * PseudorangeRateMetersPerSecond in metres, frac in ticks
FracRange(frac, rate) ==
    LET p == frac * rate
    IN  IF p >= 0 THEN p \div TICKS_PER_S ELSE -((-p) \div TICKS_PER_S)

\* mutant of WeekRollover: a negative travel time is left as it is
WeekRollover_None(tau) == tau

\* "if tau < 0: tau += GPS_WEEKSECS"
WeekRollover(tau) == IF tau < 0 THEN tau + WEEK ELSE tau

\* the pseudorange c1 from the reception time tRx (ticks)
Pseudorange(tRx, values, frac, integerize) ==
    LET tau == WeekRollover(tRx - values.ReceivedSvTimeNanos)
        c1 == Range(tau)
    IN  IF integerize
        THEN c1 - FracRange(frac, values.PseudorangeRateMetersPerSecond)
        ELSE c1

OrZero(o) == IF o = None THEN 0 ELSE Val(o)

Skip == [outcome |-> "skip"]
Abort == [outcome |-> "abort"]
Obs(codeType, svid, c1, s1, l1, d1) ==
    [outcome |-> "add", codeType |-> codeType, svid |-> svid,
     c1 |-> c1, s1 |-> s1, l1 |-> l1, d1 |-> d1]

\* "if not args.skip_edit and (c1 > 40e6 or c1 < 10e6)"
OutOfBounds(c1, skip_edit) == ~skip_edit /\ (c1 > 40000000 \/ c1 < 10000000)

\* mutant of GlonassFSN: the boundary PRN 93 is let through
GlonassFSN_Above(svid) == svid > 93

\* "if svid >= 93": a GLONASS PRN that is a frequency slot number
GlonassFSN(svid) == svid >= 93

\* android_to_rinex_2.11.py, lines 399-470: the rest of the loop body
\* after the batch transition
Compute211(values, gpssow, frac, a) ==
    LET tRxSeconds == gpssow - OrZero(values.TimeOffsetNanos)
        c1 == Pseudorange(tRxSeconds, values, frac, a.integerize)
        prn == values.Svid
        ct == values.ConstellationType
        letter == IF ct = CONSTELLATION_GPS THEN "G"
                  ELSE IF ct = CONSTELLATION_GLONASS THEN "R"
                  ELSE IF ct = CONSTELLATION_GALILEO THEN "E"
                  ELSE "C"
        l1 == Cycles(values.AccumulatedDeltaRangeMeters, GPS_L1_WAVELENGTH)
        d1 == -Cycles(values.PseudorangeRateMetersPerSecond, GPS_L1_WAVELENGTH)
    IN  IF ct = CONSTELLATION_GLONASS /\ GlonassFSN(values.Svid) THEN Skip
        ELSE IF ct \notin {CONSTELLATION_GPS, CONSTELLATION_GLONASS,
                           CONSTELLATION_GALILEO, CONSTELLATION_BEIDOU} THEN Skip
        ELSE IF OutOfBounds(c1, a.skip_edit) THEN Skip
        ELSE Obs("", SvidStr(letter, prn), c1, values.Cn0DbHz, l1, d1)

\* the band cascades of android_to_rinex_3.03.py (lines 611-728); the
\* carrier frequency cf is in MHz
CodeType303(ct, cf) ==
    IF ct = CONSTELLATION_GPS
    THEN IF cf > 1500 THEN "L1" ELSE IF cf > 1200 THEN "L2"
         ELSE IF cf > 1100 THEN "L5" ELSE ""
    ELSE IF ct = CONSTELLATION_GLONASS
    THEN IF cf > 1500 THEN "L1" ELSE IF cf > 1200 THEN "L2" ELSE ""
    ELSE IF ct = CONSTELLATION_GALILEO
    THEN IF cf > 1500 THEN "E1" ELSE IF cf > 1250 THEN "E6"
         ELSE IF cf > 1200 THEN "E5b" ELSE IF cf > 1100 THEN "E5a" ELSE ""
    ELSE IF cf > 1500 THEN "B1" ELSE IF cf > 1250 THEN "B3"
         ELSE IF cf > 1100 THEN "B2" ELSE ""

\* GLN_LIST[prn-1]: a tuple index of Python, negative ones count from the end
GlnIndexOK(prn) == (prn - 1) \in (-Len(GLN_LIST))..(Len(GLN_LIST) - 1)
GlnChannel(prn) ==
    GLN_LIST[(IF prn - 1 >= 0 THEN prn - 1 ELSE prn - 1 + Len(GLN_LIST)) + 1]

\* the wavelength the carrier phase l1 is divided by
PhaseWavelength(ct, codeType, prn) ==
    IF ct = CONSTELLATION_GPS
    THEN IF codeType = "L1" THEN GPS_L1_WAVELENGTH
         ELSE IF codeType = "L2" THEN GPS_L2_WAVELENGTH ELSE GPS_L5_WAVELENGTH
    ELSE IF ct = CONSTELLATION_GLONASS
    THEN IF codeType = "L1" THEN get_glo_L1(GlnChannel(prn))
         ELSE get_glo_L2(GlnChannel(prn))
    ELSE IF ct = CONSTELLATION_GALILEO
    THEN IF codeType = "E1" THEN GAL_E1_WAVELENGTH
         ELSE IF codeType = "E6" THEN GAL_E6_WAVELENGTH
         ELSE IF codeType = "E5b" THEN GAL_E5B_WAVELENGTH ELSE GAL_E5A_WAVELENGTH
    ELSE IF codeType = "B1" THEN BDS_L1_WAVELENGTH
         ELSE IF codeType = "B3" THEN BDS_L3_WAVELENGTH ELSE BDS_L2_WAVELENGTH

\* the wavelength the Doppler d1 is divided by
DopplerWavelength(ct, codeType, prn) ==
    IF ct = CONSTELLATION_GALILEO /\ codeType = "E6" THEN GAL_E5B_WAVELENGTH
    ELSE PhaseWavelength(ct, codeType, prn)

\* mutant of tRx_nanos_of: BeiDou time is taken for GPS time
tRx_nanos_of_NoBdsOffset(fb, values) ==
    LET week_number_nanos == ((-fb) \div WEEK) * WEEK
        day_number_nanos == ((-fb) \div (86400 * TICKS_PER_S)) * (86400 * TICKS_PER_S)
        millSec_number_nanos == ((-fb) \div (TICKS_PER_S \div 10)) * (TICKS_PER_S \div 10)
        tRx_GNSS == values.TimeNanos + Val(values.TimeOffsetNanos)
                    - values.FullBiasNanos - values.BiasNanos
        ct == values.ConstellationType
    IN  IF ct = CONSTELLATION_GLONASS
        THEN tRx_GNSS - day_number_nanos
             + (3 * 3600 - OrZero(values.LeapSecond)) * TICKS_PER_S
        ELSE IF ct = CONSTELLATION_GALILEO /\ Val(values.CarrierFrequencyHz) > 1500
        THEN tRx_GNSS - millSec_number_nanos
        ELSE tRx_GNSS - week_number_nanos

\* lines 542-564: the reception time of the record's constellation; fb is
\* the full bias in use, cf the carrier frequency as read (before its default)
tRx_nanos_of(fb, values) ==
    LET week_number_nanos == ((-fb) \div WEEK) * WEEK
        day_number_nanos == ((-fb) \div (86400 * TICKS_PER_S)) * (86400 * TICKS_PER_S)
        millSec_number_nanos == ((-fb) \div (TICKS_PER_S \div 10)) * (TICKS_PER_S \div 10)
        tRx_GNSS == values.TimeNanos + Val(values.TimeOffsetNanos)
                    - values.FullBiasNanos - values.BiasNanos
        ct == values.ConstellationType
    IN  IF ct = CONSTELLATION_GPS THEN tRx_GNSS - week_number_nanos
        ELSE IF ct = CONSTELLATION_GLONASS
        THEN tRx_GNSS - day_number_nanos
             + (3 * 3600 - OrZero(values.LeapSecond)) * TICKS_PER_S
        ELSE IF ct = CONSTELLATION_GALILEO
        THEN IF Val(values.CarrierFrequencyHz) > 1500
             THEN tRx_GNSS - millSec_number_nanos
             ELSE tRx_GNSS - week_number_nanos
        ELSE IF ct = CONSTELLATION_BEIDOU
        THEN tRx_GNSS - week_number_nanos - 14 * TICKS_PER_S
        ELSE tRx_GNSS - week_number_nanos

\* android_to_rinex_3.03.py, lines 538-758: the rest of the loop body
\* after the batch transition
Compute303(values, fb, frac, a) ==
    LET ct == values.ConstellationType
        prn == values.Svid
        cf == IF values.CarrierFrequencyHz = None THEN 2000
              ELSE Val(values.CarrierFrequencyHz)
        codeType == CodeType303(ct, cf)
        c1 == Pseudorange(tRx_nanos_of(fb, values), values, frac, a.integerize)
        letter == IF ct = CONSTELLATION_GPS THEN "G"
                  ELSE IF ct = CONSTELLATION_GLONASS THEN "R"
                  ELSE IF ct = CONSTELLATION_GALILEO THEN "E"
                  ELSE "C"
        raw == Cycles(values.AccumulatedDeltaRangeMeters,
                      PhaseWavelength(ct, codeType, prn))
        l1 == IF codeType = "" THEN 0
              ELSE IF ~check_adr_state(values.AccumulatedDeltaRangeState) THEN 0
              ELSE get_correction_adr(c1, raw, PhaseWavelength(ct, codeType, prn))
        d1 == IF codeType = "" THEN 0
              ELSE -Cycles(values.PseudorangeRateMetersPerSecond,
                           DopplerWavelength(ct, codeType, prn))
    IN  IF values.TimeOffsetNanos = None THEN Abort
        ELSE IF ct = CONSTELLATION_GALILEO /\ values.CarrierFrequencyHz = None
        THEN Abort
        ELSE IF ct = CONSTELLATION_GLONASS /\ GlonassFSN(values.Svid) THEN Skip
        ELSE IF ct = CONSTELLATION_GLONASS /\ codeType # "" /\ ~GlnIndexOK(prn)
        THEN Abort
        ELSE IF ct \notin {CONSTELLATION_GPS, CONSTELLATION_GLONASS,
                           CONSTELLATION_GALILEO, CONSTELLATION_BEIDOU} THEN Skip
        ELSE Obs(codeType, SvidStr(letter, prn),
                 Fmt(c1), Fmt(values.Cn0DbHz), Fmt(l1), Fmt(d1))

-----------------------------------------------------------------------------
(* __main__: the loop over the lines of the log *)

NewBatch(epoch) ==
    IF variant = "2.11" THEN RinexBatch211(epoch) ELSE RinexBatch303(epoch)

PrintBatch(batch) == IF variant = "2.11" THEN print211(batch) ELSE print303(batch)

Add(batch, r) ==
    IF variant = "2.11"
    THEN add211(batch, r.svid, r.c1, r.s1, r.l1, r.d1)
    ELSE add303(batch, r.codeType, r.svid, r.c1, r.s1, r.l1, r.d1)

\* "if not line.startswith("Raw,")"
IsRaw(line) == line.kind = "Raw"

\* mutant of FieldCountOK: the field count is not checked
FieldCountOK_Unchecked(line) == TRUE

\* "if len(fields) != len(raw_field_descr): ... continue"; line.missing is
\* the number of fields the line lacks
FieldCountOK(line) == line.missing = 0

\* "elif rinex_batch.epoch != epoch": the live batch must be printed and replaced
EpochChanged(batch, epoch) == batch # None /\ Val(batch).epoch # epoch

\* mutant of TransitionText: the batch is replaced without being printed
TransitionText_Silent(batch, epoch) == <<>>

\* the text of the live batch, written when the epoch changes
TransitionText(batch, epoch) ==
    IF EpochChanged(batch, epoch) THEN PrintBatch(Val(batch)) ELSE <<>>

\* mutant of BatchFor: the live batch is kept when the epoch changes
BatchFor_Keep(batch, epoch) ==
    IF batch = None THEN NewBatch(epoch) ELSE Val(batch)

\* the batch the record is added to: lines 389-396
BatchFor(batch, epoch) ==
    IF batch = None \/ EpochChanged(batch, epoch) THEN NewBatch(epoch)
    ELSE Val(batch)

\* "if first_epoch is None: out.write(end_header(epoch))"
HeaderText(first, epoch) == IF first = None THEN end_header(epoch) ELSE <<>>

Compute(values, fb, gpssow, frac) ==
    IF variant = "2.11" THEN Compute211(values, gpssow, frac, args)
    ELSE Compute303(values, fb, frac, args)

FlushEntry(batch, id, text, adds, at) ==
    [id |-> id, epoch |-> batch.epoch, svids |-> batch.svids,
     text |-> text, added |-> adds, at |-> at]

\* a line that is not a "Raw," line
ReadOther(line) ==
    /\ pc = "loop" /\ nread < MaxLines
    /\ ~IsRaw(line)
    /\ nread' = nread + 1
    /\ log' = Append(log, [line |-> line, kind |-> "other"])
    /\ UNCHANGED <<adr, variant, args, profile, pc, fault, fullbiasnanos, first_epoch,
                   rinex_batch, out, added, flushes, ncreated>>

\* a "Raw," line with the wrong number of fields
ReadMalformed(line) ==
    /\ pc = "loop" /\ nread < MaxLines
    /\ IsRaw(line) /\ ~FieldCountOK(line)
    /\ nread' = nread + 1
    /\ log' = Append(log, [line |-> line, kind |-> "malformed"])
    /\ UNCHANGED <<adr, variant, args, profile, pc, fault, fullbiasnanos, first_epoch,
                   rinex_batch, out, added, flushes, ncreated>>

\* a well-formed "Raw," line: lines 352-470 (2.11), 492-758 (3.03)
ReadRecord(line) ==
    LET values == line
        fbo == UpdateFullBias(fullbiasnanos, values, args.fix_bias)
        fb == Val(fbo)
        gpssow == gpssow_of(fb, values)
        frac == frac_of(gpssow, args.integerize)
        epoch == gpstime_to_epoch(gpsweek_of(fb), gpssow - frac)
        changed == EpochChanged(rinex_batch, epoch)
        fresh == rinex_batch = None \/ changed
        text == TransitionText(rinex_batch, epoch)
        batch == BatchFor(rinex_batch, epoch)
        r == Compute(values, fb, gpssow, frac)
        adds == IF batch = NewBatch(epoch) THEN <<>> ELSE added
    IN  /\ pc = "loop" /\ nread < MaxLines
        /\ IsRaw(line) /\ FieldCountOK(line)
        /\ nread' = nread + 1
        /\ fullbiasnanos' = fbo
        /\ first_epoch' = Some(FALSE)
        /\ out' = out \o HeaderText(first_epoch, epoch) \o text
        /\ flushes' = IF changed
                      THEN Append(flushes, FlushEntry(Val(rinex_batch), ncreated,
                                                      text, added, "transition"))
                      ELSE flushes
        /\ ncreated' = IF fresh THEN ncreated + 1 ELSE ncreated
        /\ rinex_batch' = Some(IF r.outcome = "add" THEN Add(batch, r) ELSE batch)
        /\ added' = IF r.outcome = "add"
                    THEN Append(adds, [obs |-> r, epoch |-> epoch])
                    ELSE adds
        /\ pc' = IF r.outcome = "abort" THEN "abort" ELSE "loop"
        /\ fault' = IF r.outcome = "abort" THEN Some("record") ELSE fault
        /\ log' = Append(log, [line |-> line, kind |-> r.outcome, epoch |-> epoch,
                               fb |-> fb, bias |-> UsedBiasNanos(values),
                               obs |-> r])
        /\ UNCHANGED <<adr, variant, args, profile>>

\* the end of the log: "out.write(rinex_batch.print())", lines 473-477
\* (2.11), 761-765 (3.03); None has no print method
EndOfStream ==
    /\ pc = "loop"
    /\ IF rinex_batch = None
       THEN /\ pc' = "abort"
            /\ fault' = Some("flush")
            /\ UNCHANGED <<out, flushes>>
       ELSE /\ pc' = "done"
            /\ out' = out \o PrintBatch(Val(rinex_batch))
            /\ flushes' = Append(flushes,
                                 FlushEntry(Val(rinex_batch), ncreated,
                                            PrintBatch(Val(rinex_batch)), added, "end"))
            /\ UNCHANGED fault
    /\ UNCHANGED <<adr, variant, args, profile, nread, fullbiasnanos, first_epoch,
                   rinex_batch, added, log, ncreated>>

-----------------------------------------------------------------------------
(* The log files: the lines a run may read *)

\* a receiver clock in GPS week 1, 100 s into the week at TimeNanos = 0
FB0 == -(WEEK + 100 * TICKS_PER_S)

BaseLine ==
    [kind |-> "Raw", missing |-> 0,
     TimeNanos |-> 1000, FullBiasNanos |-> FB0, BiasNanos |-> 0,
     TimeOffsetNanos |-> Some(0), ReceivedSvTimeNanos |-> 0,
     ConstellationType |-> CONSTELLATION_GPS, Svid |-> 5,
     CarrierFrequencyHz |-> Some(1575),
     AccumulatedDeltaRangeMeters |-> 1000, AccumulatedDeltaRangeState |-> 1,
     PseudorangeRateMetersPerSecond |-> 100, Cn0DbHz |-> 30,
     LeapSecond |-> Some(18)]

\* the line l with the satellite time that lies `travel` ticks before the
\* reception time program v computes from l's own clock fields
WithTravel(v, l, travel) ==
    LET tRx == IF v = "2.11"
               THEN gpssow_of(l.FullBiasNanos, l) - OrZero(l.TimeOffsetNanos)
               ELSE tRx_nanos_of(l.FullBiasNanos, l)
    IN  [l EXCEPT !.ReceivedSvTimeNanos = tRx - travel]

\* a record of satellite (ct, prn) on carrier cf MHz at TimeNanos t, 70 ms away
Sat(v, t, ct, prn, cf, cn0) ==
    WithTravel(v, [BaseLine EXCEPT !.TimeNanos = t, !.ConstellationType = ct,
                                   !.Svid = prn, !.CarrierFrequencyHz = Some(cf),
                                   !.Cn0DbHz = cn0], 70)

OtherLine == [BaseLine EXCEPT !.kind = "Fix"]

\* satellites, bands, rejections and failures at two instants of one clock
SatLines(v) ==
    { Sat(v, 1000, CONSTELLATION_GPS, 5, 1575, 30),
      Sat(v, 1000, CONSTELLATION_GPS, 5, 1575, 41),
      Sat(v, 1000, CONSTELLATION_GPS, 5, 1176, 42),
      Sat(v, 1000, CONSTELLATION_GPS, 7, 1575, 30),
      Sat(v, 1000, CONSTELLATION_GLONASS, 3, 1602, 30),
      Sat(v, 1000, CONSTELLATION_GALILEO, 11, 1176, 30),
      Sat(v, 1000, CONSTELLATION_BEIDOU, 2, 1561, 30),
      Sat(v, 1000, CONSTELLATION_QZSS, 1, 1575, 30),
      Sat(v, 1000, CONSTELLATION_UNKNOWN, 1, 1575, 30),
      Sat(v, 1000, CONSTELLATION_GLONASS, 93, 1602, 30),
      Sat(v, 1000, CONSTELLATION_GLONASS, 30, 1602, 30),
      [Sat(v, 1000, CONSTELLATION_GALILEO, 11, 1575, 30)
          EXCEPT !.CarrierFrequencyHz = None],
      [Sat(v, 1000, CONSTELLATION_GPS, 9, 1575, 30)
          EXCEPT !.ReceivedSvTimeNanos = @ + 70],
      Sat(v, 2000, CONSTELLATION_GPS, 5, 1575, 30),
      Sat(v, 2000, CONSTELLATION_GPS, 7, 1575, 30),
      Sat(v, 2000, CONSTELLATION_SBAS, 20, 1575, 30),
      OtherLine,
      [Sat(v, 2000, CONSTELLATION_GPS, 8, 1575, 30) EXCEPT !.missing = 1] }

\* one satellite under clocks that differ in full bias, bias and time
ClockLines(v) ==
    { WithTravel(v, [BaseLine EXCEPT !.TimeNanos = t, !.FullBiasNanos = fb,
                                     !.BiasNanos = b], 70) :
        t \in {1000, 1400}, fb \in {FB0, FB0 - 2000}, b \in {0, 200} }
    \cup { [BaseLine EXCEPT !.TimeNanos = 2000, !.FullBiasNanos = FB0 - 2000,
                            !.missing = 1],
           OtherLine }

\* one clock; ranges inside and outside the range edit, a reception just
\* after the start of the week, epochs off the whole second, a Galileo E6 signal
RangeLines(v) ==
    { Sat(v, 1000, CONSTELLATION_GPS, 5, 1575, 30),
      WithTravel(v, [BaseLine EXCEPT !.TimeNanos = 30,
                                     !.FullBiasNanos = -(WEEK + 20),
                                     !.Svid = 7], 70 - WEEK),
      WithTravel(v, [BaseLine EXCEPT !.Svid = 8], 140),
      WithTravel(v, [BaseLine EXCEPT !.Svid = 9], 20),
      Sat(v, 1400, CONSTELLATION_GPS, 7, 1575, 30),
      Sat(v, 1500, CONSTELLATION_GPS, 5, 1575, 30),
      Sat(v, 1600, CONSTELLATION_GPS, 5, 1575, 30),
      Sat(v, 1000, CONSTELLATION_GALILEO, 11, 1278, 30),
      Sat(v, 1000, CONSTELLATION_GALILEO, 12, 1575, 30),
      Sat(v, 1000, CONSTELLATION_QZSS, 1, 1575, 30),
      Sat(v, 1000, CONSTELLATION_GPS, 5, 1227, 43),
      Sat(v, 1000, CONSTELLATION_GPS, 5, 1176, 42),
      Sat(v, 1000, CONSTELLATION_GPS, 5, 1000, 44),
      [Sat(v, 1000, CONSTELLATION_GPS, 6, 1575, 45)
          EXCEPT !.CarrierFrequencyHz = None] }

Profiles == {"sats", "clock", "range"}

SatLines211 == SatLines("2.11")
SatLines303 == SatLines("3.03")
ClockLines211 == ClockLines("2.11")
ClockLines303 == ClockLines("3.03")
RangeLines211 == RangeLines("2.11")
RangeLines303 == RangeLines("3.03")

Lines(p, v) ==
    IF p = "sats" THEN (IF v = "2.11" THEN SatLines211 ELSE SatLines303)
    ELSE IF p = "clock" THEN (IF v = "2.11" THEN ClockLines211 ELSE ClockLines303)
    ELSE (IF v = "2.11" THEN RangeLines211 ELSE RangeLines303)

\* the command lines each family of logs is run under
ArgsOf(p) ==
    IF p = "sats"
    THEN {[fix_bias |-> FALSE, integerize |-> FALSE, skip_edit |-> FALSE]}
    ELSE IF p = "clock"
    THEN [fix_bias : BOOLEAN, integerize : BOOLEAN, skip_edit : {TRUE}]
    ELSE [fix_bias : {FALSE}, integerize : BOOLEAN, skip_edit : BOOLEAN]

-----------------------------------------------------------------------------
(* The state machine *)

Init ==
    /\ variant \in {"2.11", "3.03"}
    /\ profile \in Profiles
    /\ args \in ArgsOf(profile)
    /\ pc = "loop"
    /\ fault = None
    /\ nread = 0
    /\ fullbiasnanos = None
    /\ first_epoch = None
    /\ rinex_batch = None
    /\ out = <<>>
    /\ log = <<>>
    /\ added = <<>>
    /\ flushes = <<>>
    /\ ncreated = 0
    /\ adr = None

Next ==
    \/ \E line \in Lines(profile, variant) : ReadOther(line)
    \/ \E line \in Lines(profile, variant) : ReadMalformed(line)
    \/ \E line \in Lines(profile, variant) : ReadRecord(line)
    \/ EndOfStream

Spec == Init /\ [][Next]_vars

-----------------------------------------------------------------------------
(* get_correction_adr on its own *)

\* pseudoranges in metres: 1 ms, 70 ms and 83 ms of travel
AdrRanges == {299792, 20985472, 25000000}

\* carrier phases in whole cycles, of either sign
AdrCycles == {-200000000, -5255, 0, 5255, 8388608, 100000000}

AdrWavelengths == {GPS_L1_WAVELENGTH, GPS_L5_WAVELENGTH, get_glo_L1(-7)}

InitAdr ==
    /\ adr \in {Some([psr |-> p, adr_cycles |-> a, wave_length |-> w,
                      returned |-> <<>>]) :
                    p \in AdrRanges, a \in AdrCycles, w \in AdrWavelengths}
    /\ variant = "3.03"
    /\ profile = "sats"
    /\ args \in ArgsOf("sats")
    /\ pc = "done"
    /\ fault = None
    /\ nread = 0
    /\ fullbiasnanos = None
    /\ first_epoch = None
    /\ rinex_batch = None
    /\ out = <<>>
    /\ log = <<>>
    /\ added = <<>>
    /\ flushes = <<>>
    /\ ncreated = 0

\* "l1 = get_correction_adr(c1, l1, wave_length)": the first call on the raw
\* cycles, every further call on the cycles the call before returned
CallCorrection ==
    LET a == Val(adr)
        cycles == IF a.returned = <<>> THEN a.adr_cycles
                  ELSE a.returned[Len(a.returned)]
    IN  /\ Len(a.returned) < MaxCalls
        /\ adr' = Some([a EXCEPT !.returned =
                           Append(@, get_correction_adr(a.psr, cycles,
                                                        a.wave_length))])
        /\ UNCHANGED <<variant, args, profile, pc, fault, nread, fullbiasnanos,
                       first_epoch, rinex_batch, out, log, added, flushes,
                       ncreated>>

NextAdr == CallCorrection

SpecAdr == InitAdr /\ [][NextAdr]_vars

-----------------------------------------------------------------------------
(* Vocabulary of the properties *)

\* the epoch blocks written so far, in order
Blocks == SelectSeq(out, LAMBDA item : item.type = "epoch")

\* the log entries of well-formed "Raw," lines, in order
Records == SelectSeq(log, LAMBDA e : e.kind \in {"add", "skip", "abort"})

\* the log entries of the records that reached RinexBatch.add
Accepted == SelectSeq(log, LAMBDA e : e.kind = "add")

\* the satellite ids of a block's data lines, in line order: the 2.11 epoch
\* line lists them (data line i belongs to id i), a 3.03 data line starts
\* with its id
BlockIds(blk) ==
    IF variant = "2.11" THEN blk.ids
    ELSE [i \in 1..Len(blk.data) |-> blk.data[i].svid]

Distinct(s) == \A i, j \in 1..Len(s) : i # j => s[i] # s[j]

Range_(s) == {s[i] : i \in 1..Len(s)}

\* the texts of all calls of print, concatenated
RECURSIVE FlushTexts(_)
FlushTexts(fs) ==
    IF fs = <<>> THEN <<>> ELSE FlushTexts(SubSeq(fs, 1, Len(fs) - 1)) \o fs[Len(fs)].text

-----------------------------------------------------------------------------
(* C1 *)

OneEpochDistinctIds ==
    /\ Len(Records) >= 2
    /\ Len(Accepted) = Len(Records)
    /\ \A i \in 1..Len(Accepted) : Accepted[i].epoch = Accepted[1].epoch
    /\ Distinct([i \in 1..Len(Accepted) |-> Accepted[i].obs.svid])

\* C1: when the run has ended on a log whose records are all accepted, all
\* resolve to one epoch and carry pairwise distinct satellite ids, exactly one
\* epoch block has been written; it states as satellite count the number of
\* distinct ids and holds exactly one data line per id, none missing and none
\* repeated.  Both programs.
C1_OneLinePerSatellite ==
    (pc = "done" /\ OneEpochDistinctIds) =>
        LET ids == {Accepted[i].obs.svid : i \in 1..Len(Accepted)}
        IN  /\ Len(Blocks) = 1
            /\ Blocks[1].epoch = Accepted[1].epoch
            /\ Blocks[1].nsat = Cardinality(ids)
            /\ Len(Blocks[1].data) = Cardinality(ids)
            /\ Len(BlockIds(Blocks[1])) = Cardinality(ids)
            /\ \A id \in ids : Count(BlockIds(Blocks[1]), id) = 1

C1_Witness ==
    /\ pc = "done" /\ OneEpochDistinctIds
    /\ Len(Accepted) = 3
    /\ \E i \in 1..3 : Accepted[i].obs.svid.sys = "R"
    /\ \E i \in 1..3 : Accepted[i].obs.svid.sys = "G"

-----------------------------------------------------------------------------
(* C2 *)

\* C2: every call of print on a batch whose satellite list repeats an id
\* returns nothing (no epoch line, no data line), every call on a batch with
\* pairwise distinct ids returns that batch's block, and the blocks of the
\* output are exactly what the calls returned.
C2_RepeatedSuppressed ==
    /\ \A k \in 1..Len(flushes) :
          IF Distinct(flushes[k].svids)
          THEN /\ Len(flushes[k].text) = 1
               /\ flushes[k].text[1].epoch = flushes[k].epoch
               /\ flushes[k].text[1].nsat = Len(flushes[k].svids)
          ELSE flushes[k].text = <<>>
    /\ Blocks = FlushTexts(flushes)

C2_Witness ==
    /\ pc = "done"
    /\ Len(flushes) = 2
    /\ ~Distinct(flushes[1].svids) /\ Distinct(flushes[2].svids)
    /\ Len(flushes[2].svids) = 1
    /\ Len(Blocks) = 1

-----------------------------------------------------------------------------
(* C3 *)

PrimaryBand(codeType) == codeType \in {"L1", "E1", "B1"}

\* the add calls among adds made for satellite id in the primary band class
\* (primary = TRUE) or in another band (primary = FALSE)
AddsOf(adds, id, primary) ==
    SelectSeq(adds, LAMBDA a : a.obs.svid = id
                               /\ PrimaryBand(a.obs.codeType) = primary)

\* the four columns <<C, L, D, S>> a band class of satellite id must show
\* after the add calls adds: those of its last record, or four placeholders
Columns(adds, id, primary) ==
    LET mine == AddsOf(adds, id, primary)
    IN  IF mine = <<>> THEN <<EMPTY, EMPTY, EMPTY, EMPTY>>
        ELSE LET o == mine[Len(mine)].obs IN <<o.c1, o.l1, o.d1, o.s1>>

\* C3 (3.03): every block written holds exactly one row per satellite added
\* to its batch; the first four columns of the row hold the values of the
\* satellite's primary-band (L1/E1/B1) record and the last four those of its
\* record of another band, whichever was added first; the four columns of a
\* band class are placeholders exactly when no record of that class was added
\* for the satellite to that batch.
C3_MergedRow ==
    variant = "3.03" =>
        \A k \in 1..Len(flushes) :
            LET f == flushes[k]
                ids == {f.added[i].obs.svid : i \in 1..Len(f.added)}
            IN  /\ Len(f.text) = 1
                /\ Len(f.text[1].data) = Cardinality(ids)
                /\ \A id \in ids :
                      \E n \in 1..Len(f.text[1].data) :
                          LET row == f.text[1].data[n]
                          IN  /\ row.svid = id
                              /\ <<row.c1, row.l1, row.d1, row.s1>>
                                     = Columns(f.added, id, TRUE)
                              /\ <<row.c2, row.l2, row.d2, row.s2>>
                                     = Columns(f.added, id, FALSE)
                              /\ (row.c1 = EMPTY <=> AddsOf(f.added, id, TRUE) = <<>>)
                              /\ (row.c2 = EMPTY <=> AddsOf(f.added, id, FALSE) = <<>>)

\* the other band arrives first, the primary band second: one row, both filled
C3_Witness ==
    /\ variant = "3.03" /\ pc = "done"
    /\ Len(flushes) = 1
    /\ Len(flushes[1].added) = 2
    /\ flushes[1].added[1].obs.svid = flushes[1].added[2].obs.svid
    /\ flushes[1].added[1].obs.codeType = "L5"
    /\ flushes[1].added[2].obs.codeType = "L1"
    /\ Len(Blocks) = 1 /\ Len(Blocks[1].data) = 1
    /\ Blocks[1].data[1].s1 = Fmt(30) /\ Blocks[1].data[1].s2 = Fmt(42)

-----------------------------------------------------------------------------
(* C4 *)

\* the distinct elements of s in order of first appearance
RECURSIVE FirstSeen(_)
FirstSeen(s) ==
    IF s = <<>> THEN <<>>
    ELSE LET front == FirstSeen(SubSeq(s, 1, Len(s) - 1))
         IN  IF s[Len(s)] \in Range_(front) THEN front ELSE Append(front, s[Len(s)])

\* the epochs whose batch print discarded for repeated entries
DiscardedEpochs ==
    {flushes[k].epoch : k \in {n \in 1..Len(flushes) : flushes[n].text = <<>>}}

\* C4: when the run has ended, the epochs of the blocks written are the
\* distinct resolved epochs of the records in order of first appearance,
\* without the discarded ones; no epoch is written in two blocks.
C4_EpochsInFirstSeenOrder ==
    pc = "done" =>
        /\ [i \in 1..Len(Blocks) |-> Blocks[i].epoch]
             = SelectSeq(FirstSeen([i \in 1..Len(Records) |-> Records[i].epoch]),
                         LAMBDA e : e \notin DiscardedEpochs)
        /\ Distinct([i \in 1..Len(Blocks) |-> Blocks[i].epoch])

-----------------------------------------------------------------------------
(* C5 *)

\* C5: every observable added to the live batch comes from a record that
\* resolved to the batch's epoch, the satellites the batch lists are those of
\* these records, and every block written carries the epoch of the records
\* whose observables it holds.
C5_BatchOfOneEpoch ==
    /\ rinex_batch # None =>
          /\ \A i \in 1..Len(added) : added[i].epoch = Val(rinex_batch).epoch
          /\ Range_(Val(rinex_batch).svids)
                 = {added[i].obs.svid : i \in 1..Len(added)}
    /\ \A k \in 1..Len(flushes) :
          /\ \A i \in 1..Len(flushes[k].added) :
                flushes[k].added[i].epoch = flushes[k].epoch
          /\ \A n \in 1..Len(flushes[k].text) :
                flushes[k].text[n].epoch = flushes[k].epoch

\* a second epoch is being accumulated after the first was written
C5_Witness ==
    /\ pc = "loop"
    /\ Len(flushes) = 1 /\ Len(flushes[1].added) = 1 /\ Len(added) = 1
    /\ added[1].epoch # flushes[1].epoch
    /\ Val(rinex_batch).epoch = added[1].epoch

-----------------------------------------------------------------------------
(* C6 *)

\* the add calls of all calls of print, concatenated
RECURSIVE FlushAdds(_)
FlushAdds(fs) ==
    IF fs = <<>> THEN <<>> ELSE FlushAdds(SubSeq(fs, 1, Len(fs) - 1)) \o fs[Len(fs)].added

\* C6: the batches are printed in the order of their creation, none twice;
\* every batch but the live one was printed when a record of another epoch
\* arrived, and the live one is printed at the end of the log; a printed
\* batch holds the observables added to it, and what print returns for it is
\* written: its block, or nothing when it repeats a satellite; every
\* observable added is in the batch of exactly one call of print or still in
\* the live batch, and in none once the log is exhausted.
C6_PrintedExactlyOnce ==
    /\ \A k \in 1..Len(flushes) :
          /\ flushes[k].id = k
          /\ flushes[k].at = (IF pc = "done" /\ k = ncreated THEN "end"
                              ELSE "transition")
          /\ flushes[k].svids
                 = (IF variant = "2.11"
                    THEN [i \in 1..Len(flushes[k].added) |->
                              flushes[k].added[i].obs.svid]
                    ELSE FirstSeen([i \in 1..Len(flushes[k].added) |->
                                        flushes[k].added[i].obs.svid]))
          /\ IF Distinct(flushes[k].svids)
             THEN /\ Len(flushes[k].text) = 1
                  /\ flushes[k].text[1].nsat = Len(flushes[k].svids)
                  /\ Len(flushes[k].text[1].data) = Len(flushes[k].svids)
             ELSE flushes[k].text = <<>>
    /\ (rinex_batch = None) = (ncreated = 0)
    /\ Len(flushes) = (IF pc = "done" \/ ncreated = 0 THEN ncreated
                       ELSE ncreated - 1)
    /\ Blocks = FlushTexts(flushes)
    /\ [i \in 1..Len(Accepted) |-> Accepted[i].obs]
         = [i \in 1..Len(FlushAdds(flushes) \o (IF pc = "done" THEN <<>> ELSE added))
              |-> (FlushAdds(flushes) \o (IF pc = "done" THEN <<>> ELSE added))[i].obs]

\* one batch printed at a change of epoch, a second one at the end of the log
C6_Witness ==
    /\ pc = "done"
    /\ Len(flushes) = 2
    /\ flushes[1].at = "transition" /\ flushes[2].at = "end"
    /\ Len(flushes[1].added) = 2 /\ Len(flushes[2].added) = 1
    /\ Len(Blocks) = 2

-----------------------------------------------------------------------------
(* C7 *)

\* C7: no run fails at the print of the last batch.
C7_FinalFlushNeverFails == fault # Some("flush")

-----------------------------------------------------------------------------
(* C8 *)

\* a step that reads a "Raw," line with a wrong number of fields
ReadsMalformed ==
    /\ Len(log') = Len(log) + 1
    /\ log'[Len(log')].line.kind = "Raw"
    /\ log'[Len(log')].line.missing # 0

\* C8: a step that reads a "Raw," line whose field count is wrong leaves the
\* held full bias, the first-epoch flag, the live batch (epoch and lists),
\* the output written so far and the record of add and print calls unchanged.
C8_MalformedHasNoEffect ==
    [][ReadsMalformed =>
          UNCHANGED <<fullbiasnanos, first_epoch, rinex_batch, out, added,
                      flushes, ncreated, pc, fault>>]_vars

\* a malformed line has been read while a batch with one satellite is live
C8_Witness ==
    /\ Len(log) = 2
    /\ log[2].line.kind = "Raw" /\ log[2].line.missing # 0
    /\ log[1].kind = "add"
    /\ rinex_batch # None /\ Len(Val(rinex_batch).svids) = 1
    /\ Len(out) = 1 /\ fullbiasnanos # None

-----------------------------------------------------------------------------
(* C9 *)

Supported(id) == id.sys \in {"G", "R", "E", "C"} /\ (id.sys = "R" => id.prn < 93)

Rejected(line) ==
    \/ line.ConstellationType \in {CONSTELLATION_QZSS, CONSTELLATION_SBAS,
                                   CONSTELLATION_UNKNOWN}
    \/ line.ConstellationType = CONSTELLATION_GLONASS /\ line.Svid >= 93

\* C9: no record of QZSS, SBAS, an unknown constellation or GLONASS with
\* PRN >= 93 reaches RinexBatch.add; the live batch, every printed batch and
\* every block written hold only ids of letter G, R, E or C, and every R id
\* has a PRN below 93.
C9_RejectedNeverAdded ==
    /\ \A i \in 1..Len(Records) : Rejected(Records[i].line) => Records[i].kind # "add"
    /\ rinex_batch # None => \A id \in Range_(Val(rinex_batch).svids) : Supported(id)
    /\ \A k \in 1..Len(flushes) : \A id \in Range_(flushes[k].svids) : Supported(id)
    /\ \A n \in 1..Len(Blocks) : \A id \in Range_(BlockIds(Blocks[n])) : Supported(id)

\* GLONASS PRN 93 and QZSS were read between two accepted satellites
C9_Witness ==
    /\ Len(Records) = 3
    /\ Records[1].kind = "add"
    /\ Records[2].line.ConstellationType = CONSTELLATION_GLONASS
    /\ Records[2].line.Svid = 93
    /\ Records[2].kind = "skip"
    /\ Records[3].line.ConstellationType = CONSTELLATION_QZSS
    /\ Records[3].kind = "skip"
    /\ Len(Val(rinex_batch).svids) = 1

-----------------------------------------------------------------------------
(* C10 *)

\* C10 as stated: under --fix-bias the full bias and the bias that resolve a
\* record's week and time of week are those of the first record; without it
\* they are the record's own.
C10_ClockStateHeld ==
    \A i \in 1..Len(Records) :
        IF args.fix_bias
        THEN /\ Records[i].fb = Records[1].line.FullBiasNanos
             /\ Records[i].bias = Records[1].line.BiasNanos
        ELSE /\ Records[i].fb = Records[i].line.FullBiasNanos
             /\ Records[i].bias = Records[i].line.BiasNanos

\* C10, amended: under --fix-bias the full bias that resolves a record's week
\* and time of week is that of the first record, while the bias is always the
\* record's own; without --fix-bias both are the record's own.  Without
\* --integerize the record's epoch is TimeNanos less this full bias and bias.
C10_FullBiasHeld ==
    \A i \in 1..Len(Records) :
        /\ Records[i].fb = (IF args.fix_bias THEN Records[1].line.FullBiasNanos
                            ELSE Records[i].line.FullBiasNanos)
        /\ Records[i].bias = Records[i].line.BiasNanos
        /\ ~args.integerize =>
              Records[i].epoch
                  = Records[i].line.TimeNanos - Records[i].fb - Records[i].bias

\* under --fix-bias a later record differs from the first in both values
C10_Witness ==
    /\ args.fix_bias /\ ~args.integerize
    /\ Len(Records) = 2
    /\ Records[2].line.FullBiasNanos # Records[1].line.FullBiasNanos
    /\ Records[2].line.BiasNanos # Records[1].line.BiasNanos
    /\ Records[2].fb = Records[1].line.FullBiasNanos
    /\ Records[2].bias = Records[2].line.BiasNanos

-----------------------------------------------------------------------------
(* C11 *)

\* the pseudorange of an accepted record, in metres
C1Of(e) == IF variant = "2.11" THEN e.obs.c1 ELSE e.obs.c1[1]

\* reception time less transmission time of a record, before any rollover
RxLessTx(e) ==
    (IF variant = "2.11"
     THEN gpssow_of(e.fb, e.line) - OrZero(e.line.TimeOffsetNanos)
     ELSE tRx_nanos_of(e.fb, e.line)) - e.line.ReceivedSvTimeNanos

\* the travel time the claim prescribes: one week more when negative
TravelTime(e) ==
    IF RxLessTx(e) < 0 THEN RxLessTx(e) + GPS_WEEKSECS * TICKS_PER_S
    ELSE RxLessTx(e)

\* the time of week of a record less the time of week of its epoch
Residual(e) ==
    (e.line.TimeNanos - e.fb - e.bias) - e.epoch

\* C11: for every accepted record, of either program and every supported
\* constellation, the travel time scaled by the speed of light is reception
\* time less transmission time, plus exactly one week when that difference
\* is negative and unchanged otherwise, and it is not negative; the record's
\* pseudorange is this travel time times the speed of light (less the
\* range-rate compensation of the epoch's residual).
C11_WeekRollover ==
    \A i \in 1..Len(Accepted) :
        /\ TravelTime(Accepted[i]) >= 0
        /\ C1Of(Accepted[i])
             = Range(TravelTime(Accepted[i]))
               - FracRange(Residual(Accepted[i]),
                           Accepted[i].line.PseudorangeRateMetersPerSecond)

\* a record received 50 ms into the week from a satellite that sent 20 ms
\* before the end of the week before was accepted with a range of 70 ms
C11_Witness ==
    /\ Len(Accepted) >= 1
    /\ RxLessTx(Accepted[1]) = 70 - WEEK
    /\ C1Of(Accepted[1]) = Range(70)
    /\ ~args.integerize

-----------------------------------------------------------------------------
(* C12 *)

Abs(x) == IF x >= 0 THEN x ELSE -x

\* C12: under --integerize the epoch of every record is a whole second, at
\* most half a second away from the record's time of week, and the
\* pseudorange of every accepted record is the pseudorange without
\* --integerize less residual times pseudorange rate, the residual being the
\* time of week less the epoch's.
C12_Integerized ==
    args.integerize =>
        /\ \A i \in 1..Len(Records) :
              /\ Records[i].epoch % TICKS_PER_S = 0
              /\ 2 * Abs(Residual(Records[i])) <= TICKS_PER_S
        /\ \A i \in 1..Len(Accepted) :
              C1Of(Accepted[i])
                 = Range(TravelTime(Accepted[i]))
                   - (Residual(Accepted[i])
                      * Accepted[i].line.PseudorangeRateMetersPerSecond)
                     \div TICKS_PER_S

\* records 0.4 s after and 0.4 s before a whole second, both compensated
C12_Witness ==
    /\ args.integerize
    /\ Len(Accepted) = 2
    /\ Residual(Accepted[1]) = 400
    /\ Residual(Accepted[2]) = -400
    /\ Accepted[2].epoch = Accepted[1].epoch + TICKS_PER_S
    /\ C1Of(Accepted[1]) = Range(70) - 40
    /\ C1Of(Accepted[2]) = Range(70) + 40

-----------------------------------------------------------------------------
(* C13 *)

\* C13: get_correction_adr applied to what it returned, with the same
\* pseudorange and wavelength, returns the same cycles again.
C13_Idempotent ==
    (adr # None /\ Len(Val(adr).returned) >= 2) =>
        Val(adr).returned[2] = Val(adr).returned[1]

-----------------------------------------------------------------------------
(* C19 *)

\* n / d rounded to the nearest integer, a half away from zero (d > 0)
RoundHalfAway(n, d) ==
    IF n >= 0 THEN (2 * n + d) \div (2 * d) ELSE -((2 * (-n) + d) \div (2 * d))

\* C19: the value get_correction_adr returns for raw cycles a is
\* -(a - MAX_VALUE * wrapCount) with wrapCount the integer nearest to
\* (psr / wave_length + a) / MAX_VALUE, a half rounded away from zero; so the
\* value plus a is a multiple of MAX_VALUE.
C19_IntegerWrapCount ==
    (adr # None /\ Len(Val(adr).returned) >= 1) =>
        LET a == Val(adr)
            ratio == Cycles(a.psr, a.wave_length) + a.adr_cycles
        IN  /\ a.returned[1]
                 = -(a.adr_cycles - MAX_VALUE * RoundHalfAway(ratio, MAX_VALUE))
            /\ (a.returned[1] + a.adr_cycles) % MAX_VALUE = 0

-----------------------------------------------------------------------------
(* C14 *)

\* C14: without --skip-edit, in both programs, every pseudorange that
\* reached RinexBatch.add lies between 10e6 m and 40e6 m.
C14_RangeEdited ==
    ~args.skip_edit =>
        \A i \in 1..Len(Accepted) :
            /\ C1Of(Accepted[i]) >= 10000000
            /\ C1Of(Accepted[i]) <= 40000000

-----------------------------------------------------------------------------
(* C18 *)

\* the Doppler of an accepted record of android_to_rinex_3.03.py, in hertz
D1Of(e) == e.obs.d1[1]

\* C18 (3.03): the Doppler of every accepted record with a classified band is
\* minus the pseudorange rate divided by the wavelength of that band, the
\* wavelength its carrier phase is divided by.
C18_DopplerOfSameBand ==
    variant = "3.03" =>
        \A i \in 1..Len(Accepted) :
            Accepted[i].obs.codeType # "" =>
                D1Of(Accepted[i])
                   = -Cycles(Accepted[i].line.PseudorangeRateMetersPerSecond,
                             PhaseWavelength(Accepted[i].line.ConstellationType,
                                             Accepted[i].obs.codeType,
                                             Accepted[i].line.Svid))

-----------------------------------------------------------------------------
(* C20 *)

\* C20: every epoch block written holds at least one satellite.
C20_NoEmptyBlock ==
    \A n \in 1..Len(Blocks) : Blocks[n].nsat >= 1 /\ Len(Blocks[n].data) >= 1

-----------------------------------------------------------------------------
(* C17 *)

\* the start of the period of `length` ticks in which the clock started
StartOf(e, length) == ((-e.fb) \div length) * length

\* the reception time of a record when Galileo's high band (above 1500 MHz)
\* counts from `high` and its other bands from `low`, each the length in
\* ticks of the period whose start is the origin
ReceptionTime(e, high, low) ==
    LET l == e.line
        tRx_GNSS == l.TimeNanos + Val(l.TimeOffsetNanos)
                    - l.FullBiasNanos - l.BiasNanos
        week == GPS_WEEKSECS * TICKS_PER_S
        day == 86400 * TICKS_PER_S
    IN  CASE l.ConstellationType = CONSTELLATION_GPS ->
                 tRx_GNSS - StartOf(e, week)
          [] l.ConstellationType = CONSTELLATION_GLONASS ->
                 tRx_GNSS - StartOf(e, day)
                 + (3 * 3600 - OrZero(l.LeapSecond)) * TICKS_PER_S
          [] l.ConstellationType = CONSTELLATION_BEIDOU ->
                 tRx_GNSS - StartOf(e, week) - 14 * TICKS_PER_S
          [] l.ConstellationType = CONSTELLATION_GALILEO ->
                 IF Val(l.CarrierFrequencyHz) > 1500
                 THEN tRx_GNSS - StartOf(e, high)
                 ELSE tRx_GNSS - StartOf(e, low)

\* the pseudorange that follows from a reception time tRx
RangeFrom(e, tRx) ==
    LET d == tRx - e.line.ReceivedSvTimeNanos
    IN  Range(IF d < 0 THEN d + GPS_WEEKSECS * TICKS_PER_S ELSE d)
        - FracRange(Residual(e), e.line.PseudorangeRateMetersPerSecond)

\* C17 as stated (3.03): the pseudorange of every accepted record follows
\* from a reception time counted from the start of the week for GPS and for
\* Galileo above 1500 MHz (E1), from the start of the day plus 3 hours less
\* the leap seconds for GLONASS, from the start of the week less 14 s for
\* BeiDou, and from the 100 ms boundary for Galileo's lower bands.
C17_GalileoHighFromWeek ==
    variant = "3.03" =>
        \A i \in 1..Len(Accepted) :
            C1Of(Accepted[i])
               = RangeFrom(Accepted[i],
                           ReceptionTime(Accepted[i], GPS_WEEKSECS * TICKS_PER_S,
                                         TICKS_PER_S \div 10))

\* C17, amended (3.03): as above, but Galileo above 1500 MHz (E1) counts
\* from the 100 ms boundary and Galileo's lower bands from the start of the
\* week.
C17_GalileoHighFromTenth ==
    variant = "3.03" =>
        \A i \in 1..Len(Accepted) :
            C1Of(Accepted[i])
               = RangeFrom(Accepted[i],
                           ReceptionTime(Accepted[i], TICKS_PER_S \div 10,
                                         GPS_WEEKSECS * TICKS_PER_S))

\* a Galileo E1 record and a Galileo E6 record, each 70 ms away, the first
\* received 1 s after its 100 ms boundary, the second 101 s into the week
C17_Witness ==
    /\ variant = "3.03" /\ ~args.integerize
    /\ Len(Accepted) = 2
    /\ Accepted[1].obs.codeType = "E1" /\ Accepted[2].obs.codeType = "E6"
    /\ ReceptionTime(Accepted[1], TICKS_PER_S \div 10, GPS_WEEKSECS * TICKS_PER_S)
          = 1000
    /\ ReceptionTime(Accepted[2], TICKS_PER_S \div 10, GPS_WEEKSECS * TICKS_PER_S)
          = 101000
    /\ C1Of(Accepted[1]) = Range(70) /\ C1Of(Accepted[2]) = Range(70)

-----------------------------------------------------------------------------
(* C15 *)

\* a step that adds to the live batch an observable of a satellite and band
\* the batch already holds
SameBandAgain ==
    /\ added # <<>>
    /\ Len(added') = Len(added) + 1
    /\ SubSeq(added', 1, Len(added)) = added
    /\ \E k \in 1..Len(added) :
          /\ added[k].obs.svid = added'[Len(added')].obs.svid
          /\ added[k].obs.codeType = added'[Len(added')].obs.codeType

\* the step keeps the one row of the satellite, writes the new values into
\* the columns of the band and leaves every other column of the batch alone
KeepsOneRow ==
    LET b == Val(rinex_batch)
        b2 == Val(rinex_batch')
        new == added'[Len(added')].obs
    IN  /\ b2.epoch = b.epoch
        /\ b2.svids = b.svids
        /\ Count(b2.svids, new.svid) = 1
        /\ LET i == CHOOSE k \in 1..Len(b.svids) : b.svids[k] = new.svid
           IN  IF PrimaryBand(new.codeType)
               THEN /\ <<b2.c1[i], b2.s1[i], b2.l1[i], b2.d1[i]>>
                          = <<new.c1, new.s1, new.l1, new.d1>>
                    /\ <<b2.c2, b2.s2, b2.l2, b2.d2>> = <<b.c2, b.s2, b.l2, b.d2>>
                    /\ \A j \in 1..Len(b.svids) :
                          j # i => <<b2.c1[j], b2.s1[j], b2.l1[j], b2.d1[j]>>
                                      = <<b.c1[j], b.s1[j], b.l1[j], b.d1[j]>>
               ELSE /\ <<b2.c2[i], b2.s2[i], b2.l2[i], b2.d2[i]>>
                          = <<new.c1, new.s1, new.l1, new.d1>>
                    /\ <<b2.c1, b2.s1, b2.l1, b2.d1>> = <<b.c1, b.s1, b.l1, b.d1>>
                    /\ \A j \in 1..Len(b.svids) :
                          j # i => <<b2.c2[j], b2.s2[j], b2.l2[j], b2.d2[j]>>
                                      = <<b.c2[j], b.s2[j], b.l2[j], b.d2[j]>>

\* a printed batch that was given some satellite and band twice wrote its
\* block, with one data line for that satellite
RepeatedBandEmitted ==
    \A n \in 1..Len(flushes) :
        \A i, j \in 1..Len(flushes[n].added) :
            (i < j /\ flushes[n].added[i].obs.svid = flushes[n].added[j].obs.svid
                   /\ flushes[n].added[i].obs.codeType
                         = flushes[n].added[j].obs.codeType) =>
                /\ Len(flushes[n].text) = 1
                /\ Count(BlockIds(flushes[n].text[1]),
                         flushes[n].added[i].obs.svid) = 1

\* C15 as stated, for both programs: an observable added for a satellite and
\* band the live batch already holds leaves one row for the satellite, with
\* the later values, the other columns untouched, and the batch's block is
\* still written when the batch is printed.
C15_LastWriteWins ==
    /\ [][SameBandAgain => KeepsOneRow]_vars
    /\ []RepeatedBandEmitted

\* C15, amended: the same, in android_to_rinex_3.03.py only.
C15_LastWriteWins303 ==
    /\ [][(variant = "3.03" /\ SameBandAgain) => KeepsOneRow]_vars
    /\ [](variant = "3.03" => RepeatedBandEmitted)

\* G05 on L5, then on L1 twice: one row, the L1 columns of the last record,
\* the L5 columns as they were, and the block written
C15_Witness ==
    /\ variant = "3.03" /\ pc = "done"
    /\ Len(flushes) = 1 /\ Len(flushes[1].added) = 3
    /\ flushes[1].added[1].obs.codeType = "L5"
    /\ flushes[1].added[2].obs.codeType = "L1"
    /\ flushes[1].added[3].obs.codeType = "L1"
    /\ flushes[1].added[2].obs.s1 = Fmt(30)
    /\ flushes[1].added[3].obs.s1 = Fmt(41)
    /\ Len(Blocks) = 1 /\ Len(Blocks[1].data) = 1
    /\ Blocks[1].data[1].s1 = Fmt(41) /\ Blocks[1].data[1].s2 = Fmt(42)

-----------------------------------------------------------------------------
(* C16 *)

\* the satellites given to a printed batch, in the order of their first add
FirstAdded(f) == FirstSeen([i \in 1..Len(f.added) |-> f.added[i].obs.svid])

OfSystem(ids, letter) == SelectSeq(ids, LAMBDA id : id.sys = letter)

\* C16: a block of android_to_rinex_2.11.py lists the satellite ids, and
\* holds their data lines, in the order the satellites were added; a block
\* of android_to_rinex_3.03.py holds the data lines of GPS, then BeiDou,
\* Galileo, GLONASS and QZSS, each group in the order its satellites were
\* first added.
C16_OrderInBlock ==
    \A k \in 1..Len(flushes) :
        flushes[k].text # <<>> =>
            LET f == flushes[k]
                blk == f.text[1]
            IN  IF variant = "2.11"
                THEN /\ blk.ids = FirstAdded(f)
                     /\ Len(blk.data) = Len(f.added)
                     /\ \A i \in 1..Len(f.added) :
                           blk.data[i] = [c1 |-> f.added[i].obs.c1,
                                          s1 |-> f.added[i].obs.s1,
                                          l1 |-> f.added[i].obs.l1,
                                          d1 |-> f.added[i].obs.d1]
                ELSE BlockIds(blk)
                        = OfSystem(FirstAdded(f), "G") \o OfSystem(FirstAdded(f), "C")
                          \o OfSystem(FirstAdded(f), "E") \o OfSystem(FirstAdded(f), "R")
                          \o OfSystem(FirstAdded(f), "J")

\* GLONASS, GPS and BeiDou added in this order are written GPS, BeiDou, GLONASS
C16_Witness ==
    /\ variant = "3.03" /\ pc = "done"
    /\ Len(flushes) = 1 /\ Len(flushes[1].added) = 3
    /\ flushes[1].added[1].obs.svid.sys = "R"
    /\ flushes[1].added[2].obs.svid.sys = "G"
    /\ flushes[1].added[3].obs.svid.sys = "C"
    /\ Len(Blocks) = 1 /\ Len(Blocks[1].data) = 3
    /\ Blocks[1].data[1].svid.sys = "G"
    /\ Blocks[1].data[2].svid.sys = "C"
    /\ Blocks[1].data[3].svid.sys = "R"

-----------------------------------------------------------------------------
(* C21 *)

\* the nine lists of a batch of android_to_rinex_3.03.py
Lists303(b) == <<b.svids, b.c1, b.s1, b.l1, b.d1, b.c2, b.s2, b.l2, b.d2>>

\* C21 (3.03): the live batch never lists a satellite id twice and its
\* nine lists are equally long; no batch printed listed an id twice, and
\* every call of print returned a block.
C21_NoRepeatedEntry303 ==
    variant = "3.03" =>
        /\ rinex_batch # None =>
              /\ Distinct(Val(rinex_batch).svids)
              /\ \A n \in 1..9 :
                    Len(Lists303(Val(rinex_batch))[n]) = Len(Val(rinex_batch).svids)
        /\ \A k \in 1..Len(flushes) :
              /\ Distinct(flushes[k].svids)
              /\ ~HasRepeated(flushes[k].svids)
              /\ Len(flushes[k].text) = 1

\* three records of one satellite, two of them of the same band, were added
\* and the batch was printed with its one row
C21_Witness ==
    /\ variant = "3.03" /\ pc = "done"
    /\ Len(flushes) = 1 /\ Len(flushes[1].added) = 3
    /\ \A i \in 1..3 : flushes[1].added[i].obs.svid = flushes[1].added[1].obs.svid
    /\ flushes[1].added[1].obs.codeType = "L1"
    /\ flushes[1].added[2].obs.codeType = "L5"
    /\ flushes[1].added[3].obs.codeType = "L1"
    /\ Len(flushes[1].svids) = 1
    /\ Len(Blocks) = 1

-----------------------------------------------------------------------------
(* C22 *)

\* C22 (3.03): no GLONASS record with a PRN below 93 and a carrier above
\* 1200 MHz ends the run.
C22_GlonassNeverAborts ==
    variant = "3.03" =>
        \A i \in 1..Len(Records) :
            (/\ Records[i].line.ConstellationType = CONSTELLATION_GLONASS
             /\ Records[i].line.Svid < 93
             /\ Records[i].line.CarrierFrequencyHz # None
             /\ Val(Records[i].line.CarrierFrequencyHz) > 1200) =>
                Records[i].kind # "abort"

-----------------------------------------------------------------------------
(* C23 *)

\* a step that adds to the live batch an observable of a satellite the batch
\* already holds, of no band at all or of a non-primary band other than a
\* non-primary band already added for the satellite
OtherSecondBand ==
    /\ added # <<>>
    /\ Len(added') = Len(added) + 1
    /\ SubSeq(added', 1, Len(added)) = added
    /\ ~PrimaryBand(added'[Len(added')].obs.codeType)
    /\ \E k \in 1..Len(added) :
          /\ added[k].obs.svid = added'[Len(added')].obs.svid
          /\ \/ added'[Len(added')].obs.codeType = ""
             \/ /\ ~PrimaryBand(added[k].obs.codeType)
                /\ added[k].obs.codeType # added'[Len(added')].obs.codeType

\* C23 (3.03): a record of a satellite the live batch already holds, of a
\* non-primary band other than the one added before or of no band, leaves
\* the last four columns of the batch as they are.
C23_SecondBandKept ==
    [][(variant = "3.03" /\ OtherSecondBand) =>
          <<Val(rinex_batch').c2, Val(rinex_batch').s2,
            Val(rinex_batch').l2, Val(rinex_batch').d2>>
             = <<Val(rinex_batch).c2, Val(rinex_batch).s2,
                 Val(rinex_batch).l2, Val(rinex_batch).d2>>]_vars

-----------------------------------------------------------------------------
(* C24 *)

\* the positions of the output that hold the end of the header
Headers == {n \in 1..Len(out) : out[n].type = "end_header"}

\* C24: once a block has been written, the output holds the end of the
\* header exactly once, before every block, and its time of first
\* observation is the epoch of the first block.
C24_HeaderOfFirstBlock ==
    Blocks # <<>> =>
        /\ Headers = {1}
        /\ out[1].epoch = Blocks[1].epoch

-----------------------------------------------------------------------------
(* C25 *)

\* C25 (3.03): every record of GPS, GLONASS (PRN below 93), Galileo or BeiDou
\* whose CarrierFrequencyHz is empty is added, as L1, E1 or B1.
C25_EmptyCarrierIsPrimary ==
    variant = "3.03" =>
        \A i \in 1..Len(Records) :
            (/\ Records[i].line.CarrierFrequencyHz = None
             /\ Records[i].line.ConstellationType
                   \in {CONSTELLATION_GPS, CONSTELLATION_GLONASS,
                        CONSTELLATION_GALILEO, CONSTELLATION_BEIDOU}
             /\ ~(Records[i].line.ConstellationType = CONSTELLATION_GLONASS
                  /\ Records[i].line.Svid >= 93)) =>
                /\ Records[i].kind = "add"
                /\ Records[i].obs.codeType \in {"L1", "E1", "B1"}

=============================================================================
